---- MODULE Spec2Model ----
(***************************************************************************)
(* A state-machine model of main() in main.go: the vCenter host inventory  *)
(* exporter.  main is one sequential routine; pc is its position, and each *)
(* action is one statement group or one loop iteration of it.  The calls   *)
(* to the vSphere API and to the file system are the environment: their    *)
(* results are chosen with \E from small sets.                             *)
(*                                                                         *)
(* Kept of a host: its name, its parent reference and its vSAN system      *)
(* reference.  Left out: the hardware columns of a row (model, version,    *)
(* CPU, sockets, cores, memory), the -debug dumps to stdout, and the       *)
(* deferred Logout and Destroy.                                            *)
(*                                                                         *)
(* Sizes.  A disk's capacity is BlockSize * Block bytes (int64).  The model*)
(* counts Block in units of 2^29 blocks, so capacityBytes is in units of   *)
(* 2^29 bytes and one TiB (1024^4 bytes) is 2048 of these units; no sum    *)
(* here comes near the int64 range.                                        *)
(***************************************************************************)
EXTENDS Integers, Sequences, FiniteSets, TLC

\* ------------------------------------------------------------------ bounds
\* the longest host list whose hosts have vSAN systems, and the longest whose
\* hosts have groups
MaxHosts == 2
MaxGroupedHosts == 3

\* -------------------------------------------------------- input domains
HostNames  == {"esx1", "esx2"}
ParentRefs == {"domain-c1", "domain-c2"}
GroupNames == {"Prod", "Lab"}

\* a nil *types.ManagedObjectReference for h.Parent
NoParent == ""

\* mo.HostSystem, reduced to the fields main reads for identity and storage
HostSystem ==
  [Name : HostNames, Parent : ParentRefs \cup {NoParent}, VsanSystem : BOOLEAN]

RECURSIVE SeqsUpTo(_, _)
SeqsUpTo(S, n) ==
  IF n = 0 THEN {<<>>}
  ELSE LET shorter == SeqsUpTo(S, n - 1)
       IN  shorter \cup {Append(s, x) : s \in {t \in shorter : Len(t) = n - 1}, x \in S}

Digits == <<"0", "1", "2", "3", "4", "5", "6", "7", "8", "9">>

\* strconv.Itoa / %d for n >= 0
RECURSIVE Itoa(_)
Itoa(n) == IF n < 10 THEN Digits[n + 1] ELSE Itoa(n \div 10) \o Digits[(n % 10) + 1]

\* The inventories explored.  The two passes over hosts share no data (parent names
\* against vSAN systems), so a list varies its hosts' vSAN systems, with names that
\* may repeat, or its hosts' groups, with the names esx1, esx2, ... in order.
\* A single host varies both.
Storage(hs) == \A k \in 1..Len(hs) : hs[k].Parent = NoParent
Single(hs)  == Len(hs) <= 1

GroupedHosts(parents) ==
  [k \in DOMAIN parents |->
     [Name |-> "esx" \o Itoa(k), Parent |-> parents[k], VsanSystem |-> FALSE]]

HostLists ==
  {hs \in SeqsUpTo(HostSystem, MaxHosts) : Storage(hs) \/ Single(hs)}
    \cup {GroupedHosts(ps) : ps \in SeqsUpTo(ParentRefs \cup {NoParent}, MaxGroupedHosts)}

\* types.HostDiskDimensionsLba, Block in units of 2^29 blocks
SmallDisk == [BlockSize |-> 512,  Block |-> 1]
LargeDisk == [BlockSize |-> 4096, Block |-> 1]

\* types.VsanHostDiskMapping: one cache SSD and the capacity disks of a group
DiskGroup(nonSsd) == [Ssd |-> LargeDisk, NonSsd |-> nonSsd]

NoCapacityDisks == << DiskGroup(<<>>) >>
TwoDiskGroups   == << DiskGroup(<<SmallDisk, LargeDisk>>), DiskGroup(<<LargeDisk>>) >>

\* vsanSys.Config: VsanEsaEnabled is a *bool, StorageInfo a pointer
VsanConfig(esaSet, esa, infoSet, dm) ==
  [VsanEsaEnabled |-> [present |-> esaSet, value |-> esa],
   StorageInfo    |-> [present |-> infoSet, DiskMapping |-> dm]]

VsanConfigs ==
  { VsanConfig(FALSE, FALSE, FALSE, <<>>),
    VsanConfig(TRUE,  FALSE, TRUE,  <<>>),
    VsanConfig(FALSE, FALSE, TRUE,  NoCapacityDisks),
    VsanConfig(TRUE,  FALSE, TRUE,  TwoDiskGroups),
    VsanConfig(TRUE,  TRUE,  FALSE, <<>>),
    VsanConfig(TRUE,  TRUE,  TRUE,  TwoDiskGroups) }

\* types.VsanHostDiskResult: VsanDiskInfo # nil is inUse
EsaDisk(inUse, dim) == [inUse |-> inUse, Capacity |-> dim]

EsaDiskLists ==
  { <<>>,
    << EsaDisk(FALSE, LargeDisk) >>,
    << EsaDisk(TRUE, SmallDisk), EsaDisk(FALSE, LargeDisk), EsaDisk(TRUE, LargeDisk) >> }

\* ------------------------------------------------------------------ state
VARIABLES
  pc,          \* position in main
  anonymize,   \* the -anonymize flag
  hosts,       \* []mo.HostSystem
  i,           \* index of the running loop (1-based)
  parentNames, \* map: parent MoRef value -> name
  lookups,     \* per parent MoRef value, the RetrieveOne calls made for its name:
               \* for each, the index of the host it was made for and whether it succeeded
  anonClusters,\* map: real group name -> "Cluster N"
  vsanSys,     \* the iteration's mo.HostVsanSystem config, <<>> when not fetched
  vsanInfo,    \* map: host name -> vsanHostInfo
  facts,       \* per host index, the outcome of its iteration of the vSAN loop
  created,     \* os.Create succeeded: the output file exists
  file,        \* records that reached the output file
  wbuf,        \* records held in the csv.Writer's buffer
  werr,        \* the csv.Writer's sticky error
  log,         \* the messages given to log.Printf / log.Fatalf
  summary      \* the count printed by the final "Wrote %d hosts", -1 before

vars == << pc, anonymize, hosts, i, parentNames, lookups, anonClusters, vsanSys,
           vsanInfo, facts, created, file, wbuf, werr, log, summary >>

\* ---------------------------------------------------------------- helpers
\* a Go map read: the zero value when the key is absent
MapGet(m, k, zero) == IF k \in DOMAIN m THEN m[k] ELSE zero

MapPut(m, k, v) == [x \in DOMAIN m \cup {k} |-> IF x = k THEN v ELSE m[x]]

EmptyMap == [x \in {} |-> ""]

Warn(msg, host) == [level |-> "warning", msg |-> msg, host |-> host]
Fatal(msg)      == [level |-> "fatal", msg |-> msg, host |-> ""]

Init ==
  /\ pc = "flags"
  /\ anonymize = FALSE
  /\ hosts = <<>>
  /\ i = 1
  /\ parentNames = EmptyMap
  /\ lookups = [r \in ParentRefs |-> <<>>]
  /\ anonClusters = EmptyMap
  /\ vsanSys = <<>>
  /\ vsanInfo = EmptyMap
  /\ facts = <<>>
  /\ created = FALSE
  /\ file = <<>>
  /\ wbuf = <<>>
  /\ werr = FALSE
  /\ log = <<>>
  /\ summary = -1

\* main.go 26-38: flag parsing and the check of the required flags
ParseFlags ==
  /\ pc = "flags"
  /\ \E ok \in BOOLEAN, anon \in BOOLEAN :
       /\ pc' = IF ok THEN "password" ELSE "usage"
       /\ anonymize' = (ok /\ anon)
  /\ UNCHANGED << hosts, i, parentNames, lookups, anonClusters, vsanSys, vsanInfo,
                  facts, created, file, wbuf, werr, log, summary >>

\* main.go 40-48: the password prompt, when -password is not given
ReadPassword ==
  /\ pc = "password"
  /\ \E ok \in BOOLEAN :
       IF ok
       THEN pc' = "connect" /\ log' = log
       ELSE pc' = "fatal" /\ log' = Append(log, Fatal("Error reading password"))
  /\ UNCHANGED << anonymize, hosts, i, parentNames, lookups, anonClusters, vsanSys,
                  vsanInfo, facts, created, file, wbuf, werr, summary >>

\* main.go 53-63: url.Parse and govmomi.NewClient
Connect ==
  /\ pc = "connect"
  /\ \E r \in {"ok", "Error parsing URL", "Error connecting to vCenter"} :
       IF r = "ok"
       THEN pc' = "view" /\ log' = log
       ELSE pc' = "fatal" /\ log' = Append(log, Fatal(r))
  /\ UNCHANGED << anonymize, hosts, i, parentNames, lookups, anonClusters, vsanSys,
                  vsanInfo, facts, created, file, wbuf, werr, summary >>

\* main.go 67-71: CreateContainerView
CreateView ==
  /\ pc = "view"
  /\ \E ok \in BOOLEAN :
       IF ok
       THEN pc' = "retrieve" /\ log' = log
       ELSE pc' = "fatal" /\ log' = Append(log, Fatal("Error creating container view"))
  /\ UNCHANGED << anonymize, hosts, i, parentNames, lookups, anonClusters, vsanSys,
                  vsanInfo, facts, created, file, wbuf, werr, summary >>

\* main.go 75-79: v.Retrieve fills hosts, or fails
RetrieveHosts ==
  /\ pc = "retrieve"
  /\ \E ok \in BOOLEAN :
       IF ok
       THEN /\ \E hs \in HostLists : hosts' = hs
            /\ pc' = "parents"
            /\ log' = log
       ELSE /\ hosts' = hosts
            /\ pc' = "fatal"
            /\ log' = Append(log, Fatal("Error retrieving hosts"))
  /\ i' = 1
  /\ UNCHANGED << anonymize, parentNames, lookups, anonClusters, vsanSys, vsanInfo,
                  facts, created, file, wbuf, werr, summary >>

\* the results pc.RetrieveOne can give for a parent's name
NameResults ==
  {[ok |-> FALSE, name |-> ""]} \cup {[ok |-> TRUE, name |-> n] : n \in GroupNames}

\* Memoized with the check of line 89 dropped: every host looks its parent up
NeverMemoized(m, ref) == FALSE

\* main.go 89: the parent's name is already in parentNames
Memoized(m, ref) == ref \in DOMAIN m

\* main.go 85-98: one iteration of the parent-name loop
ParentStep ==
  /\ pc = "parents"
  /\ IF i > Len(hosts)
     THEN /\ pc' = "anon"
          /\ i' = 1
          /\ UNCHANGED << parentNames, lookups, log >>
     ELSE /\ pc' = pc
          /\ i' = i + 1
          /\ LET h == hosts[i] IN
             IF h.Parent = NoParent \/ Memoized(parentNames, h.Parent)
             THEN UNCHANGED << parentNames, lookups, log >>
             ELSE \E r \in NameResults :
                       /\ lookups' = [lookups EXCEPT ![h.Parent] =
                                        Append(@, [host |-> i, ok |-> r.ok])]
                       /\ IF r.ok
                          THEN /\ parentNames' = MapPut(parentNames, h.Parent, r.name)
                               /\ log' = log
                          ELSE /\ parentNames' = parentNames
                               /\ log' = Append(log,
                                    Warn("could not retrieve cluster name", h.Name))
  /\ UNCHANGED << anonymize, hosts, anonClusters, vsanSys, vsanInfo, facts, created,
                  file, wbuf, werr, summary >>

\* main.go 111: fmt.Sprintf("Cluster %d", idx)
ClusterLabel(idx) == "Cluster " \o Itoa(idx)

\* AnonLoop with idx++ moved out of the "not yet labelled" branch of line 109
RECURSIVE AnonLoopEveryHost(_, _, _, _, _)
AnonLoopEveryHost(hs, names, k, m, idx) ==
  IF k > Len(hs) THEN m
  ELSE IF hs[k].Parent = NoParent THEN AnonLoopEveryHost(hs, names, k + 1, m, idx)
  ELSE LET realName == MapGet(names, hs[k].Parent, "") IN
       IF realName \in DOMAIN m
       THEN AnonLoopEveryHost(hs, names, k + 1, m, idx + 1)
       ELSE AnonLoopEveryHost(hs, names, k + 1,
                              MapPut(m, realName, ClusterLabel(idx + 1)), idx + 1)

\* main.go 104-113: the loop over hosts[k..], with the map and idx so far
RECURSIVE AnonLoop(_, _, _, _, _)
AnonLoop(hs, names, k, m, idx) ==
  IF k > Len(hs) THEN m
  ELSE IF hs[k].Parent = NoParent THEN AnonLoop(hs, names, k + 1, m, idx)
  ELSE LET realName == MapGet(names, hs[k].Parent, "") IN
       IF realName \in DOMAIN m
       THEN AnonLoop(hs, names, k + 1, m, idx)
       ELSE AnonLoop(hs, names, k + 1, MapPut(m, realName, ClusterLabel(idx + 1)), idx + 1)

\* main.go 101-114: the anonymized cluster-name mapping
BuildAnonClusters ==
  /\ pc = "anon"
  /\ anonClusters' = IF anonymize THEN AnonLoop(hosts, parentNames, 1, EmptyMap, 0)
                     ELSE EmptyMap
  /\ pc' = "vsan"
  /\ i' = 1
  /\ UNCHANGED << anonymize, hosts, parentNames, lookups, vsanSys, vsanInfo, facts,
                  created, file, wbuf, werr, log, summary >>

\* main.go 117-122: the zero vsanHostInfo.  capacityTiB is the float64 quotient
\* capacityBytes / 1024^4, exact for these sizes, kept by its numerator.
ZeroInfo == [clusterType |-> "", totalDisks |-> 0, cacheDisks |-> 0, capacityTiB |-> 0]

\* main.go 163, 177: int64(BlockSize) * int64(Block)
DiskBytes(dim) == dim.BlockSize * dim.Block

\* main.go 140
IsESA(cfg) == cfg.VsanEsaEnabled.present /\ cfg.VsanEsaEnabled.value

\* main.go 169: no storage info, or no disk groups
NoDiskGroups(cfg) ==
  ~cfg.StorageInfo.present \/ Len(cfg.StorageInfo.DiskMapping) = 0

\* main.go 176-178: the bytes of a group's capacity disks
RECURSIVE NonSsdBytes(_)
NonSsdBytes(ds) == IF ds = <<>> THEN 0 ELSE DiskBytes(Head(ds)) + NonSsdBytes(Tail(ds))

\* main.go 172-179: the OSA branch, over the disk groups dms, from info
RECURSIVE OsaLoop(_, _)
OsaLoop(dms, info) ==
  IF dms = <<>> THEN info
  ELSE OsaLoop(Tail(dms),
         [info EXCEPT !.totalDisks = @ + Len(Head(dms).NonSsd),
                      !.capacityTiB = @ + NonSsdBytes(Head(dms).NonSsd)])

\* OsaInfo with the cache SSD of each group counted as a capacity disk too
OsaInfoCountingCache(cfg) ==
  LET info == OsaLoop(cfg.StorageInfo.DiskMapping,
                 [ZeroInfo EXCEPT !.clusterType = "OSA",
                                  !.cacheDisks = Len(cfg.StorageInfo.DiskMapping)])
  IN  [info EXCEPT !.totalDisks = @ + info.cacheDisks]

OsaInfo(cfg) ==
  OsaLoop(cfg.StorageInfo.DiskMapping,
          [ZeroInfo EXCEPT !.clusterType = "OSA",
                           !.cacheDisks = Len(cfg.StorageInfo.DiskMapping)])

\* main.go 158-165: the ESA branch, over the queried disks
RECURSIVE EsaLoop(_, _)
EsaLoop(ds, info) ==
  IF ds = <<>> THEN info
  ELSE EsaLoop(Tail(ds),
         IF Head(ds).inUse
         THEN [info EXCEPT !.totalDisks = @ + 1,
                           !.capacityTiB = @ + DiskBytes(Head(ds).Capacity)]
         ELSE info)

\* EsaInfo with the tag set only once a disk in use is found
EsaInfoUntaggedWhenEmpty(res) ==
  LET info == IF res.ok THEN EsaLoop(res.disks, ZeroInfo) ELSE ZeroInfo
  IN  IF info.totalDisks = 0 THEN info ELSE [info EXCEPT !.clusterType = "ESA"]

\* main.go 147-166: res is the outcome of QueryDisksForVsan
EsaInfo(res) ==
  LET tagged == [ZeroInfo EXCEPT !.clusterType = "ESA"]
  IN  IF res.ok THEN EsaLoop(res.disks, tagged) ELSE tagged

\* the results pc.RetrieveOne can give for a host's vSAN system
FetchResults ==
  {[ok |-> FALSE, cfg |-> <<>>]} \cup {[ok |-> TRUE, cfg |-> <<c>>] : c \in VsanConfigs}

\* the results methods.QueryDisksForVsan can give
QueryResults ==
  {[ok |-> FALSE, disks |-> <<>>]} \cup {[ok |-> TRUE, disks |-> ds] : ds \in EsaDiskLists}

\* what one iteration of the vSAN loop ended with: how it ended, the disks it read
\* (the disk mapping, or the queried disks) and the vsanHostInfo it computed
Outcome(how, src, info) == [how |-> how, src |-> src, info |-> info]

\* main.go 124-134: the head of one iteration of the vSAN loop, up to RetrieveOne
VsanFetch ==
  /\ pc = "vsan"
  /\ IF i > Len(hosts)
     THEN /\ pc' = "create"
          /\ i' = 1
          /\ UNCHANGED << vsanSys, facts, log >>
     ELSE LET h == hosts[i] IN
          IF ~h.VsanSystem
          THEN /\ pc' = pc
               /\ i' = i + 1
               /\ facts' = Append(facts, Outcome("no reference", <<>>, ZeroInfo))
               /\ UNCHANGED << vsanSys, log >>
          ELSE \E r \in FetchResults :
                 IF r.ok
                 THEN /\ vsanSys' = r.cfg
                      /\ pc' = "aggregate"
                      /\ UNCHANGED << i, facts, log >>
                 ELSE /\ log' = Append(log,
                           Warn("could not retrieve vSAN config", h.Name))
                      /\ pc' = pc
                      /\ i' = i + 1
                      /\ facts' = Append(facts, Outcome("fetch failed", <<>>, ZeroInfo))
                      /\ UNCHANGED vsanSys
  /\ UNCHANGED << anonymize, hosts, parentNames, lookups, anonClusters, vsanInfo,
                  created, file, wbuf, werr, summary >>

\* main.go 183: vsanInfo[h.Summary.Config.Name] = info
StoreInfo(m, h, info) == MapPut(m, h.Name, info)

\* main.go 140-183: the rest of the iteration, from the fetched configuration
VsanAggregate ==
  /\ pc = "aggregate"
  /\ LET h == hosts[i]
         cfg == vsanSys[1]
     IN  IF IsESA(cfg)
         THEN \E res \in QueryResults :
                /\ vsanInfo' = StoreInfo(vsanInfo, h, EsaInfo(res))
                /\ facts' = Append(facts,
                     Outcome(IF res.ok THEN "ESA" ELSE "ESA query failed", res.disks,
                             EsaInfo(res)))
                /\ log' = IF res.ok THEN log
                          ELSE Append(log, Warn("could not query vSAN disks", h.Name))
         ELSE IF NoDiskGroups(cfg)
              THEN /\ facts' = Append(facts, Outcome("no disk groups", <<>>, ZeroInfo))
                   /\ UNCHANGED << vsanInfo, log >>
              ELSE /\ vsanInfo' = StoreInfo(vsanInfo, h, OsaInfo(cfg))
                   /\ facts' = Append(facts, Outcome("OSA", cfg.StorageInfo.DiskMapping, OsaInfo(cfg)))
                   /\ log' = log
  /\ vsanSys' = <<>>
  /\ i' = i + 1
  /\ pc' = "vsan"
  /\ UNCHANGED << anonymize, hosts, parentNames, lookups, anonClusters, created,
                  file, wbuf, werr, summary >>

\* main.go 182: 1024 * 1024 * 1024 * 1024 bytes, in units of 2^29 bytes
TiB == 2048

\* main.go 251: fmt.Sprintf("%.1f", capacityTiB): the nearest tenth, ties to even
FormatTiB(capacity) ==
  LET q == (10 * capacity) \div TiB
      r == (10 * capacity) % TiB
      tenths == IF 2 * r > TiB \/ (2 * r = TiB /\ q % 2 = 1) THEN q + 1 ELSE q
  IN  Itoa(tenths \div 10) \o "." \o Itoa(tenths % 10)

\* main.go 194: the header record (the columns the model keeps)
Header ==
  [hostname |-> "Hostname", cluster |-> "Cluster", vsanType |-> "vSAN Type",
   capacityDisks |-> "vSAN Capacity Disks", cacheDisks |-> "vSAN Cache Disks",
   capacityTiB |-> "vSAN Capacity TiB"]

\* RowHostname with the loop index used as it is (0-based) in the label
RowHostnameZeroBased(k) == IF anonymize THEN "Host " \o Itoa(k - 1) ELSE hosts[k].Name

\* main.go 197-200
RowHostname(k) == IF anonymize THEN "Host " \o Itoa(k) ELSE hosts[k].Name

\* RowCluster without the replacement of line 206
RowClusterRealName(k) ==
  IF hosts[k].Parent = NoParent THEN ""
  ELSE MapGet(parentNames, hosts[k].Parent, "")

\* main.go 202-208
RowCluster(k) ==
  IF hosts[k].Parent = NoParent THEN ""
  ELSE LET cluster == MapGet(parentNames, hosts[k].Parent, "")
       IN  IF anonymize THEN MapGet(anonClusters, cluster, "") ELSE cluster

\* main.go 236: info := vsanInfo[h.Summary.Config.Name]
RowInfo(k) == MapGet(vsanInfo, hosts[k].Name, ZeroInfo)

\* main.go 238-252: the record of the k-th host (hardware columns left out)
Row(k) ==
  [hostname      |-> RowHostname(k),
   cluster       |-> RowCluster(k),
   vsanType      |-> RowInfo(k).clusterType,
   capacityDisks |-> Itoa(RowInfo(k).totalDisks),
   cacheDisks    |-> Itoa(RowInfo(k).cacheDisks),
   capacityTiB   |-> FormatTiB(RowInfo(k).capacityTiB)]

\* main.go 187-194: os.Create, csv.NewWriter and the header, which the buffer holds
CreateOutput ==
  /\ pc = "create"
  /\ \E ok \in BOOLEAN :
       IF ok
       THEN /\ created' = TRUE
            /\ wbuf' = <<Header>>
            /\ pc' = "rows"
            /\ log' = log
       ELSE /\ pc' = "fatal"
            /\ log' = Append(log, Fatal("Error creating output file"))
            /\ UNCHANGED << created, wbuf >>
  /\ i' = 1
  /\ UNCHANGED << anonymize, hosts, parentNames, lookups, anonClusters, vsanSys,
                  vsanInfo, facts, file, werr, summary >>

\* main.go 192: csv.NewWriter(f) buffers through a bufio.Writer of the default size
BufSize == 4096

\* the bytes csv.Writer emits for a record: the fields, the commas, the newline
RecordBytes(rec) ==
  Len(rec.hostname) + Len(rec.cluster) + Len(rec.vsanType) + Len(rec.capacityDisks)
    + Len(rec.cacheDisks) + Len(rec.capacityTiB) + 6

RECURSIVE BufferedBytes(_)
BufferedBytes(recs) ==
  IF recs = <<>> THEN 0 ELSE RecordBytes(Head(recs)) + BufferedBytes(Tail(recs))

\* main.go 196-253: one iteration of the row loop.  w.Write's error is dropped; a
\* record that does not fit the buffer makes the writer write the buffer out first,
\* and a failure of that write stays in the writer as its error
WriteRow ==
  /\ pc = "rows"
  /\ IF i > Len(hosts)
     THEN /\ pc' = "flush"
          /\ UNCHANGED << i, file, wbuf, werr >>
     ELSE /\ pc' = pc
          /\ i' = i + 1
          /\ IF werr
             THEN UNCHANGED << file, wbuf, werr >>
             ELSE IF BufferedBytes(wbuf) + RecordBytes(Row(i)) <= BufSize
             THEN /\ wbuf' = Append(wbuf, Row(i))
                  /\ UNCHANGED << file, werr >>
             ELSE \E ok \in BOOLEAN :
                    /\ werr' = ~ok
                    /\ file' = IF ok THEN file \o wbuf ELSE file
                    /\ wbuf' = IF ok THEN <<Row(i)>> ELSE wbuf
  /\ UNCHANGED << anonymize, hosts, parentNames, lookups, anonClusters, vsanSys,
                  vsanInfo, facts, created, log, summary >>

\* FlushOutput without the check of w.Error: a failed write goes unnoticed
FlushOutputUnchecked ==
  /\ pc = "flush"
  /\ pc' = "close"
  /\ IF werr
     THEN UNCHANGED << file, wbuf, werr >>
     ELSE \E ok \in BOOLEAN :
            /\ file' = IF ok THEN file \o wbuf ELSE file
            /\ wbuf' = IF ok THEN <<>> ELSE wbuf
            /\ werr' = ~ok
  /\ UNCHANGED << anonymize, hosts, i, parentNames, lookups, anonClusters, vsanSys,
                  vsanInfo, facts, created, log, summary >>

\* main.go 255-258: w.Flush and the check of w.Error
FlushOutput ==
  /\ pc = "flush"
  /\ IF werr
     THEN /\ pc' = "fatal"
          /\ log' = Append(log, Fatal("Error writing CSV"))
          /\ UNCHANGED << file, wbuf, werr >>
     ELSE \E ok \in BOOLEAN :
            IF ok
            THEN /\ file' = file \o wbuf
                 /\ wbuf' = <<>>
                 /\ pc' = "close"
                 /\ UNCHANGED << werr, log >>
            ELSE /\ werr' = TRUE
                 /\ pc' = "fatal"
                 /\ log' = Append(log, Fatal("Error writing CSV"))
                 /\ UNCHANGED << file, wbuf >>
  /\ UNCHANGED << anonymize, hosts, i, parentNames, lookups, anonClusters, vsanSys,
                  vsanInfo, facts, created, summary >>

\* main.go 259-263: f.Close, then the summary line on stderr
CloseOutput ==
  /\ pc = "close"
  /\ \E ok \in BOOLEAN :
       IF ok
       THEN /\ summary' = Len(hosts)
            /\ pc' = "done"
            /\ log' = log
       ELSE /\ pc' = "fatal"
            /\ log' = Append(log, Fatal("Error closing output file"))
            /\ summary' = summary
  /\ UNCHANGED << anonymize, hosts, i, parentNames, lookups, anonClusters, vsanSys,
                  vsanInfo, facts, created, file, wbuf, werr >>

Next ==
  \/ ParseFlags
  \/ ReadPassword
  \/ Connect
  \/ CreateView
  \/ RetrieveHosts
  \/ ParentStep
  \/ BuildAnonClusters
  \/ VsanFetch
  \/ VsanAggregate
  \/ CreateOutput
  \/ WriteRow
  \/ FlushOutput
  \/ CloseOutput


Spec == Init /\ [][Next]_vars

\* ------------------------------------------------------------ properties
Range(q) == {q[j] : j \in 1..Len(q)}

Done == pc = "done"

\* the record written for the k-th host, once the file is complete
DataRow(k) == file[k + 1]

\* a record without vSAN: empty type, zero counts, zero capacity
IsNoneRow(r) ==
  r.vsanType = "" /\ r.capacityDisks = "0" /\ r.cacheDisks = "0" /\ r.capacityTiB = "0.0"

\* the record's storage columns are those of info
ShowsInfo(r, info) ==
  /\ r.vsanType = info.clusterType
  /\ r.capacityDisks = Itoa(info.totalDisks)
  /\ r.cacheDisks = Itoa(info.cacheDisks)
  /\ r.capacityTiB = FormatTiB(info.capacityTiB)

\* host k's iteration of the vSAN loop stored a vsanHostInfo
Stored(k) == facts[k].how \in {"OSA", "ESA", "ESA query failed"}

SameName(k, l) == hosts[k].Name = hosts[l].Name

HostIdx == 1..Len(hosts)

\* C1: in a finished run, the row of every host without a storage-subsystem
\* reference shows no vSAN type, zero capacity disks, zero cache disks and zero
\* capacity, whatever the other hosts of the list are.
C1_NoReferenceRowIsNone ==
  Done => \A k \in HostIdx : ~hosts[k].VsanSystem => IsNoneRow(DataRow(k))

\* C2: in a finished run, every host whose vSAN configuration fetch failed has a
\* warning naming it in the log and a row with no vSAN type and zero counts and
\* capacity, and the file holds a row for every host.
C2_FetchFailureRowIsNone ==
  Done =>
    /\ Len(file) = Len(hosts) + 1
    /\ \A k \in HostIdx :
         facts[k].how = "fetch failed" =>
           /\ Warn("could not retrieve vSAN config", hosts[k].Name) \in Range(log)
           /\ IsNoneRow(DataRow(k))

\* the capacity disks of a disk mapping, as (group, disk) positions
NonCacheDisks(dm) ==
  UNION {{<<g, d>> : d \in 1..Len(dm[g].NonSsd)} : g \in 1..Len(dm)}

RECURSIVE SumBytesAt(_, _)
SumBytesAt(dm, S) ==
  IF S = {} THEN 0
  ELSE LET x == CHOOSE x \in S : TRUE
           disk == dm[x[1]].NonSsd[x[2]]
       IN  disk.BlockSize * disk.Block + SumBytesAt(dm, S \ {x})

\* C3: for every host that took the OSA path with a non-empty disk-mapping list, the
\* storage facts computed for it have as many cache disks as disk-mapping entries,
\* as many capacity disks as there are non-cache disks over all entries, and as raw
\* capacity the sum of block size x block count over exactly the non-cache disks;
\* these facts are what the iteration stores for the host.
C3_OsaCounts ==
  \A k \in 1..Len(facts) :
    facts[k].how = "OSA" =>
      LET dm == facts[k].src
          info == facts[k].info
      IN  /\ Len(dm) > 0
          /\ info.clusterType = "OSA"
          /\ info.cacheDisks = Len(dm)
          /\ info.totalDisks = Cardinality(NonCacheDisks(dm))
          /\ info.capacityTiB = SumBytesAt(dm, NonCacheDisks(dm))
          /\ (k = Len(facts) => MapGet(vsanInfo, hosts[k].Name, ZeroInfo) = info)

C3_Witness ==
  \E k \in 1..Len(facts) :
    /\ facts[k].how = "OSA"
    /\ facts[k].info.cacheDisks = 2
    /\ facts[k].info.totalDisks = 3
    /\ facts[k].info.capacityTiB = 512 + 4096 + 4096

\* the hosts that have a group, and the group name the run knows each by
GroupedIdx == {k \in HostIdx : hosts[k].Parent # NoParent}

RealName(k) == MapGet(parentNames, hosts[k].Parent, "")

\* the first grouped host with k's group name, and how many distinct group names
\* the list shows up to it
FirstSeen(k) ==
  CHOOSE j \in GroupedIdx :
    /\ RealName(j) = RealName(k)
    /\ \A l \in GroupedIdx : RealName(l) = RealName(k) => j <= l

Rank(k) == Cardinality({RealName(j) : j \in {l \in GroupedIdx : l <= FirstSeen(k)}})

\* C4: in a finished anonymized run, hosts with the same group name carry the same
\* label and hosts with distinct group names distinct labels, the labels are
\* "Cluster 1", "Cluster 2", ... in order of first encounter in the host list with
\* no gaps, and a host without a group has an empty group field.  (The group name
\* is the one the run resolved: empty for a group whose lookups failed.)
C4_AnonLabels ==
  (Done /\ anonymize) =>
    /\ \A k \in HostIdx \ GroupedIdx : DataRow(k).cluster = ""
    /\ \A k \in GroupedIdx : DataRow(k).cluster = "Cluster " \o Itoa(Rank(k))
    /\ \A k, l \in GroupedIdx :
         (RealName(k) = RealName(l)) <=> (DataRow(k).cluster = DataRow(l).cluster)

C4_Witness ==
  /\ Done /\ anonymize
  /\ \E k, l \in GroupedIdx :
       /\ k < l
       /\ DataRow(k).cluster = "Cluster 1"
       /\ DataRow(l).cluster = "Cluster 2"

SharedGroup(k, l) == k \in GroupedIdx /\ l \in GroupedIdx /\ hosts[k].Parent = hosts[l].Parent

\* C5 as stated: each distinct group back-reference is looked up at most once,
\* whether or not the lookup succeeds, and two hosts sharing a back-reference get
\* rows with an identical group field.
C5_LookedUpAtMostOnce ==
  /\ \A r \in ParentRefs : Len(lookups[r]) <= 1
  /\ Done => \A k, l \in HostIdx : SharedGroup(k, l) => DataRow(k).cluster = DataRow(l).cluster

\* C5 amended: a group back-reference is never looked up again after a lookup of it
\* succeeded (only a failed lookup is repeated, for the next host sharing the
\* reference, so a reference is looked up at most once per host sharing it), and
\* two hosts sharing a back-reference get rows with an identical group field.
C5_NoLookupAfterSuccess ==
  /\ \A r \in ParentRefs :
       /\ \A j \in 1..Len(lookups[r]) :
            /\ j < Len(lookups[r]) => ~lookups[r][j].ok
            /\ hosts[lookups[r][j].host].Parent = r
            /\ \A j2 \in 1..Len(lookups[r]) :
                 j < j2 => lookups[r][j].host < lookups[r][j2].host
  /\ Done => \A k, l \in HostIdx : SharedGroup(k, l) => DataRow(k).cluster = DataRow(l).cluster

C5_Witness ==
  /\ Done
  /\ \E r \in ParentRefs :
       /\ Len(lookups[r]) = 2
       /\ ~lookups[r][1].ok
       /\ lookups[r][2].ok
  /\ Len(hosts) >= 2
  /\ DataRow(1).cluster = DataRow(2).cluster
  /\ DataRow(1).cluster # ""

\* a lookup of k's group failed
LookupFailed(k) ==
  k \in GroupedIdx /\ \E j \in 1..Len(lookups[hosts[k].Parent]) : ~lookups[hosts[k].Parent][j].ok

ClusterWarning(k) == Warn("could not retrieve cluster name", hosts[k].Name)

FailedLookups ==
  {<<r, j>> \in ParentRefs \X (1..Len(hosts)) : j <= Len(lookups[r]) /\ ~lookups[r][j].ok}

\* C6 as stated: a failed lookup of a group's name is logged, the run goes on, and
\* every host sharing that back-reference has an empty group field in its row,
\* also when a later lookup of the same group succeeds.
C6_FailedLookupLeavesEmptyName ==
  Done => \A k \in HostIdx : LookupFailed(k) => DataRow(k).cluster = ""

\* C6 amended: every failed lookup logs one warning naming the host it was made for,
\* and no fatal diagnostic; the name is looked up again for the next host sharing
\* the back-reference.  In a finished run, the hosts of a group of which no lookup
\* succeeded have an empty group field without anonymization and the label given to
\* the empty name under anonymization; the hosts of a group of which a later lookup
\* succeeded carry the resolved name (or its label).
C6_FailedLookupRetried ==
  /\ \A x \in FailedLookups : ClusterWarning(lookups[x[1]][x[2]].host) \in Range(log)
  /\ Cardinality({j \in 1..Len(log) : log[j].msg = "could not retrieve cluster name"})
       = Cardinality(FailedLookups)
  /\ \A j \in 1..Len(log) :
       log[j].msg = "could not retrieve cluster name" => log[j].level = "warning"
  /\ Done =>
       \A k \in GroupedIdx :
         LET p == hosts[k].Parent
             resolved == \E j \in 1..Len(lookups[p]) : lookups[p][j].ok
         IN  /\ resolved <=> p \in DOMAIN parentNames
             /\ (~resolved /\ ~anonymize) => DataRow(k).cluster = ""
             /\ (~resolved /\ anonymize) =>
                  /\ "" \in DOMAIN anonClusters
                  /\ DataRow(k).cluster = anonClusters[""]
                  /\ DataRow(k).cluster # ""
             /\ (resolved /\ ~anonymize) =>
                  /\ DataRow(k).cluster = parentNames[p]
                  /\ DataRow(k).cluster \in GroupNames
             /\ (resolved /\ anonymize) => DataRow(k).cluster = anonClusters[parentNames[p]]

C6_Witness ==
  /\ Done /\ anonymize
  /\ \E k \in HostIdx :
       /\ LookupFailed(k)
       /\ hosts[k].Parent \notin DOMAIN parentNames
       /\ DataRow(k).cluster = "Cluster 1"

\* C7: a finished run has written the header and then exactly one row per host, in
\* host-list order: the k-th data row has the k-th host's name, or "Host k" under
\* anonymization, and the group field of the k-th host; nothing is left in the
\* writer, the run has ended, and the summary count is the number of rows written.
C7_RowsInHostOrder ==
  Done =>
    /\ Len(file) = Len(hosts) + 1
    /\ file[1] = Header
    /\ wbuf = <<>>
    /\ \A k \in HostIdx :
         /\ DataRow(k).hostname = IF anonymize THEN "Host " \o Digits[k + 1] ELSE hosts[k].Name
         /\ (k \notin GroupedIdx) => DataRow(k).cluster = ""
         /\ (k \in GroupedIdx /\ ~anonymize) => DataRow(k).cluster = RealName(k)
    /\ summary = Len(file) - 1
    /\ ~ENABLED Next

C7_Witness ==
  /\ Done /\ anonymize
  /\ Len(hosts) >= 2
  /\ DataRow(2).hostname = "Host 2"
  /\ summary = Len(hosts)

Fatals == {j \in 1..Len(log) : log[j].level = "fatal"}

\* the fatal failures raised before the output file is opened
EarlyFatal ==
  {"Error reading password", "Error parsing URL", "Error connecting to vCenter",
   "Error creating container view", "Error retrieving hosts", "Error creating output file"}

\* the warnings the vSAN loop owes: one naming each host whose fetch or query failed
VsanWarned(k) ==
  /\ facts[k].how = "fetch failed" =>
       Warn("could not retrieve vSAN config", hosts[k].Name) \in Range(log)
  /\ facts[k].how = "ESA query failed" =>
       Warn("could not query vSAN disks", hosts[k].Name) \in Range(log)

\* C8 as stated: a fatal failure emits a single fatal diagnostic and is raised
\* before any output is produced: no data row has reached the output by then.
C8_FatalBeforeAnyRow ==
  pc = "fatal" => (Cardinality(Fatals) = 1 /\ Len(file) <= 1)

\* C8 amended: a run past flag validation ends either finished, with the summary
\* count, every row in the file, no fatal diagnostic and a warning naming each host
\* whose vSAN fetch or disk query failed, or in a fatal failure with exactly one
\* fatal diagnostic, the last message, and no summary.  A failure to read the
\* password, connect, enumerate the hosts or create the file is raised with nothing
\* written; a failure to write is raised after every row was given to the writer;
\* a failure to close is raised with the header and every data row in the file.
C8_Outcomes ==
  /\ (pc \in {"done", "fatal", "usage"}) <=> ~ENABLED Next
  /\ pc \notin {"fatal"} => Fatals = {}
  /\ pc # "done" => summary = -1
  /\ pc = "usage" => (log = <<>> /\ file = <<>> /\ ~created)
  /\ Done =>
       /\ summary = Len(hosts)
       /\ Len(file) = Len(hosts) + 1
       /\ \A k \in HostIdx : VsanWarned(k)
  /\ pc = "fatal" =>
       /\ Fatals = {Len(log)}
       /\ LET msg == log[Len(log)].msg IN
          /\ msg \in EarlyFatal \cup {"Error writing CSV", "Error closing output file"}
          /\ msg \in EarlyFatal => (file = <<>> /\ wbuf = <<>> /\ ~created)
          /\ msg = "Error writing CSV" => (created /\ werr /\ i = Len(hosts) + 1)
          /\ msg = "Error closing output file" =>
               (created /\ Len(file) = Len(hosts) + 1 /\ wbuf = <<>>)

C8_Witness ==
  /\ pc = "fatal"
  /\ log[Len(log)].msg = "Error closing output file"
  /\ Len(hosts) = 2
  /\ Len(file) = 3

\* host k's configuration was fetched and its ESA disk list holds no disk in use
EsaZeroDisks(k) ==
  \/ facts[k].how = "ESA query failed"
  \/ facts[k].how = "ESA" /\ \A j \in 1..Len(facts[k].src) : ~facts[k].src[j].inUse

\* host k's configuration was fetched and resolves no disk at all
ZeroDisks(k) == facts[k].how = "no disk groups" \/ EsaZeroDisks(k)

TagByFlag(k) == IF facts[k].how = "no disk groups" THEN "OSA" ELSE "ESA"

\* C9 as stated: a host whose configuration is fetched and resolves zero disks has
\* storage facts with the tag the capability flag selects (OSA or ESA), zero counts
\* and zero capacity, and its row carries that tag.
C9_ZeroDisksKeepTag ==
  \A k \in 1..Len(facts) :
    ZeroDisks(k) =>
      /\ facts[k].info = [ZeroInfo EXCEPT !.clusterType = TagByFlag(k)]
      /\ Done => DataRow(k).vsanType = TagByFlag(k)

\* C9 amended: a host whose configuration is fetched with the ESA flag set and
\* whose disk list holds no disk in use (or whose disk query fails) has storage
\* facts tagged ESA with zero counts and capacity, stored under its name, and its
\* row shows ESA, "0", "0", "0.0" unless a later host of the same name stored its
\* own facts; a host on the OSA path without disk groups has the facts of a host
\* with no vSAN at all (no tag) and stores nothing.
C9_EsaZeroDisksTagged ==
  \A k \in 1..Len(facts) :
    /\ EsaZeroDisks(k) =>
         /\ facts[k].info = [ZeroInfo EXCEPT !.clusterType = "ESA"]
         /\ (k = Len(facts) => MapGet(vsanInfo, hosts[k].Name, ZeroInfo) = facts[k].info)
         /\ (Done /\ ~\E l \in HostIdx : l > k /\ SameName(k, l) /\ Stored(l)) =>
              (DataRow(k).vsanType = "ESA" /\ DataRow(k).capacityDisks = "0"
                 /\ DataRow(k).cacheDisks = "0" /\ DataRow(k).capacityTiB = "0.0")
    /\ facts[k].how = "no disk groups" =>
         /\ facts[k].info = ZeroInfo
         /\ (Done /\ ~\E l \in HostIdx : SameName(k, l) /\ Stored(l)) =>
              IsNoneRow(DataRow(k))

C9_Witness ==
  /\ Done
  /\ \E k \in HostIdx :
       /\ facts[k].how = "ESA"
       /\ facts[k].src # <<>>
       /\ EsaZeroDisks(k)
       /\ DataRow(k).vsanType = "ESA"
       /\ DataRow(k).capacityDisks = "0"

\* C10: in a finished run, the storage columns of every host's row are those of the
\* facts computed from that host's own reference, configuration and disks, also in
\* lists where two hosts have the same display name.
C10_RowStorageIsOwn ==
  Done => \A k \in HostIdx : ShowsInfo(DataRow(k), facts[k].info)

====
